---- MODULE Spec2Model ----
(***************************************************************************)
(* Model of ComfyUI-humo_lipsync_suppress/nodes.py                         *)
(*                                                                         *)
(*   HuMoLipsyncSuppress.apply          (the band editor)                  *)
(*   HuMoAudioThresholdSwitcher.analyze (the loudness gate)                *)
(*                                                                         *)
(* Floating-point numbers are modelled as fixed-point decimals: a finite   *)
(* number is an integer count of 1/Scale units, results are rounded to the *)
(* grid, a result beyond the finite range overflows to an infinity, and    *)
(* NaN is a value of its own with the IEEE rules for 0*Inf, Inf-Inf, 0/0.  *)
(***************************************************************************)
EXTENDS Integers, Sequences, FiniteSets, TLC

(***************************************************************************)
(* Bounds of the model.                                                    *)
(***************************************************************************)
\* longest time axis of an embedding tensor
MaxT == 3
\* length of the channel axis (1280 in the host pipeline)
NumCh == 2
\* longest flat audio buffer
MaxLen == 4

(***************************************************************************)
(* Floating point (dtype float32 in the source).                           *)
(***************************************************************************)
\* units per 1.0
Scale == 100
\* largest finite value, in units
FMaxU == 40000

PInf == FMaxU + 1
NInf == 0 - (FMaxU + 1)
NaN == FMaxU + 2

\* 1.0
One == Scale

IsNaN(a) == a = NaN
IsInf(a) == a = PInf \/ a = NInf
IsFinite(a) == ~IsNaN(a) /\ ~IsInf(a)

\* overflow to the infinities
FNorm(n) == IF n > FMaxU THEN PInf ELSE IF n < 0 - FMaxU THEN NInf ELSE n

\* a / b rounded to the nearest integer (b > 0)
RoundDiv(a, b) == (a + (b \div 2)) \div b

Sign(a) == IF a > 0 THEN 1 ELSE IF a < 0 THEN 0 - 1 ELSE 0
SignedInf(s) == IF s > 0 THEN PInf ELSE NInf
FNeg(a) == IF IsNaN(a) THEN NaN ELSE 0 - a

FAdd(a, b) ==
    IF IsNaN(a) \/ IsNaN(b) THEN NaN
    ELSE IF IsInf(a) /\ IsInf(b) THEN (IF a = b THEN a ELSE NaN)
    ELSE IF IsInf(a) THEN a
    ELSE IF IsInf(b) THEN b
    ELSE FNorm(a + b)

FSub(a, b) == FAdd(a, FNeg(b))

FMul(a, b) ==
    IF IsNaN(a) \/ IsNaN(b) THEN NaN
    ELSE IF IsInf(a) \/ IsInf(b)
         THEN (IF a = 0 \/ b = 0 THEN NaN ELSE SignedInf(Sign(a) * Sign(b)))
    ELSE FNorm(RoundDiv(a * b, Scale))

FDiv(a, b) ==
    IF IsNaN(a) \/ IsNaN(b) THEN NaN
    ELSE IF IsInf(a) THEN (IF IsInf(b) THEN NaN
                           ELSE SignedInf(Sign(a) * (IF b < 0 THEN 0 - 1 ELSE 1)))
    ELSE IF IsInf(b) THEN 0
    ELSE IF b = 0 THEN (IF a = 0 THEN NaN ELSE SignedInf(Sign(a)))
    ELSE FNorm(Sign(b) * RoundDiv(a * Scale, Sign(b) * b))

\* largest r with r * r <= n  (n >= 0)
RECURSIVE ISqrtFrom(_, _)
ISqrtFrom(n, r) == IF (r + 1) * (r + 1) > n THEN r ELSE ISqrtFrom(n, r + 1)

ISqrtPick(n, h) == IF (h + 1) * (h + 1) > n THEN h ELSE h + 1

RECURSIVE ISqrt(_)
ISqrt(n) == IF n < 4 THEN ISqrtFrom(n, 0) ELSE ISqrtPick(n, 2 * ISqrt(n \div 4))

FSqrt(a) ==
    IF IsNaN(a) \/ a < 0 THEN NaN
    ELSE IF a = PInf THEN PInf
    ELSE ISqrt(a * Scale)

\* a < b as IEEE compares: false when either side is NaN
FLt(a, b) == ~IsNaN(a) /\ ~IsNaN(b) /\ a < b
FGt(a, b) == FLt(b, a)

\* torch.max / torch.min semantics of clamp: NaN propagates
FMax(a, b) == IF IsNaN(a) \/ IsNaN(b) THEN NaN ELSE IF a < b THEN b ELSE a
FMin(a, b) == IF IsNaN(a) \/ IsNaN(b) THEN NaN ELSE IF a < b THEN a ELSE b

\* the integer n as a float
FInt(n) == FNorm(n * Scale)

\* a sequence given as a function, as the sequence of its values
Vec(f) == SubSeq(f, 1, Len(f))

RECURSIVE FSumTo(_, _)
FSumTo(s, n) == IF n = 0 THEN 0 ELSE FAdd(FSumTo(s, n - 1), s[n])

FSum(s) == FSumTo(s, Len(s))

FSquares(s) == Vec([i \in 1..Len(s) |-> FMul(s[i], s[i])])

\* torch.mean of a flat buffer: sum / count (0/0 = NaN on an empty one)
FMean(s) == FDiv(FSum(s), FInt(Len(s)))

(***************************************************************************)
(* Tensors: a shape and the elements in row-major order.                   *)
(***************************************************************************)
RECURSIVE Prod(_, _)
Prod(shape, n) == IF n = 0 THEN 1 ELSE Prod(shape, n - 1) * shape[n]

Numel(shape) == Prod(shape, Len(shape))

Tensor(shape, data) == [shape |-> shape, data |-> data]

RECURSIVE Concat(_, _)
Concat(rows, n) == IF n = 0 THEN <<>> ELSE Concat(rows, n - 1) \o rows[n]

\* torch.stack(out_seq, dim=0) on the flat representation
Stack(out_seq) == Concat(out_seq, Len(out_seq))

\* number of elements of x[t]
RowLen(x) == Numel(x.shape) \div x.shape[1]

\* x[t], t counted from 0
Row(x, t) == SubSeq(x.data, t * RowLen(x) + 1, (t + 1) * RowLen(x))

(***************************************************************************)
(* HuMoLipsyncSuppress: the preset and the stages of apply.                *)
(***************************************************************************)
KEY == "humo_audio_emb"
OTHER_KEY == "target_shape"

PRESET_GAINS == <<400, 400, 50, 1, 1>>
PRESET_EMA_BETA == 90
PRESET_PRESERVE_RMS == FALSE
PRESET_ALPHA_MIX == 100
PRESET_GLOBAL_GAIN == 100
PRESET_CLAMP_STD == 0

\* eps=1e-6 of _rms and of the clamp's std floor: the smallest positive float
EPS == 1

Preset == [gains |-> PRESET_GAINS, ema_beta |-> PRESET_EMA_BETA,
           preserve_rms |-> PRESET_PRESERVE_RMS, alpha_mix |-> PRESET_ALPHA_MIX,
           global_gain |-> PRESET_GLOBAL_GAIN, clamp_std |-> PRESET_CLAMP_STD]

\* the band count is not checked
ShapeOK_rank_only(x) == Len(x.shape) = 3

\* x.ndim != 3 or x.shape[1] != 5 raises; this is its negation
ShapeOK(x) == Len(x.shape) = 3 /\ x.shape[2] = 5

\* the weights exchanged: s = one_m * s + beta * x[t]
EmaStep_swapped(beta, one_m, s, xt) ==
    Vec([i \in 1..Len(s) |-> FAdd(FMul(one_m, s[i]), FMul(beta, xt[i]))])

\* s = beta * s + one_m * x[t]
EmaStep(beta, one_m, s, xt) ==
    Vec([i \in 1..Len(s) |-> FAdd(FMul(beta, s[i]), FMul(one_m, xt[i]))])

\* for t in range(t, x.shape[0]): s = ...; out_seq.append(s)
RECURSIVE EmaLoop(_, _, _, _, _, _)
EmaLoop(x, beta, one_m, t, s, out_seq) ==
    IF t >= x.shape[1] THEN out_seq
    ELSE LET s2 == EmaStep(beta, one_m, s, Row(x, t))
         IN  EmaLoop(x, beta, one_m, t + 1, s2, Append(out_seq, s2))

SmoothingRuns(x, beta) == x.shape[1] > 1 /\ FGt(beta, 0)

\* the data of x_smooth
EmaSmooth(x, beta) ==
    IF SmoothingRuns(x, beta)
    THEN LET s == Row(x, 0)
             one_m == FSub(One, beta)
         IN  Stack(EmaLoop(x, beta, one_m, 1, s, <<s>>))
    ELSE x.data

\* the band (1..5) of the flat index i of a [T, B, C] tensor
BandOf(shape, i) == (((i - 1) \div shape[3]) % shape[2]) + 1

\* the (t, b) group (1..T*B) of the flat index i
GroupOf(shape, i) == ((i - 1) \div shape[3]) + 1

\* x_smooth * gains.view(1, 5, 1)
ApplyGains(shape, data, gains) ==
    Vec([i \in 1..Len(data) |-> FMul(data[i], gains[BandOf(shape, i)])])

\* _rms: x.pow(2).mean(dim=-1, keepdim=True).sqrt().clamp_min(eps)
Rms(shape, data, eps) ==
    Vec([g \in 1..(shape[1] * shape[2]) |->
        FMax(FSqrt(FMean(FSquares(SubSeq(data, (g - 1) * shape[3] + 1, g * shape[3])))),
             eps)])

\* x_edit * (rms_orig / rms_edit)
Rescale(shape, edit, rms_orig, rms_edit) ==
    Vec([i \in 1..Len(edit) |->
            FMul(edit[i], FDiv(rms_orig[GroupOf(shape, i)], rms_edit[GroupOf(shape, i)]))])

PreserveRms(shape, orig, edit) ==
    Rescale(shape, edit, Rms(shape, orig, EPS), Rms(shape, edit, EPS))

\* the weights exchanged: alpha * x_orig + (1.0 - alpha) * x_edit
Blend_swapped(alpha, orig, edit) ==
    Vec([i \in 1..Len(orig) |-> FAdd(FMul(alpha, orig[i]), FMul(FSub(One, alpha), edit[i]))])

\* (1.0 - alpha) * x_orig + alpha * x_edit
Blend(alpha, orig, edit) ==
    Vec([i \in 1..Len(orig) |-> FAdd(FMul(FSub(One, alpha), orig[i]), FMul(alpha, edit[i]))])

\* if PRESET_GLOBAL_GAIN != 1.0: x_mixed = x_mixed * PRESET_GLOBAL_GAIN
GlobalGain(g, data) ==
    IF g # One THEN Vec([i \in 1..Len(data) |-> FMul(data[i], g)]) ELSE data

\* x.std(): the unbiased standard deviation of all elements
FStd(data) ==
    IF Len(data) <= 1 THEN NaN
    ELSE LET m == FMean(data)
             dev == Vec([i \in 1..Len(data) |-> FSub(data[i], m)])
         IN  FSqrt(FDiv(FSum(FSquares(dev)), FInt(Len(data) - 1)))

\* if PRESET_CLAMP_STD > 0.0: x_mixed.clamp(mean - k * std, mean + k * std)
Clamp(k, data) ==
    IF FGt(k, 0)
    THEN LET mean == FMean(data)
             std == FMax(FStd(data), EPS)
             lo == FSub(mean, FMul(k, std))
             hi == FAdd(mean, FMul(k, std))
         IN  Vec([i \in 1..Len(data) |-> FMin(FMax(data[i], lo), hi)])
    ELSE data

\* the stages of the chain that a call with parameters p runs on x, in order
StagesRun(x, p) ==
       (IF SmoothingRuns(x, p.ema_beta) THEN <<"smooth">> ELSE <<>>)
    \o <<"gain">>
    \o (IF p.preserve_rms THEN <<"rms">> ELSE <<>>)
    \o <<"blend">>
    \o (IF p.global_gain # One THEN <<"global_gain">> ELSE <<>>)
    \o (IF FGt(p.clamp_std, 0) THEN <<"clamp">> ELSE <<>>)

\* the locals of apply after the chain: the data of x_smooth, x_edit, x_mixed
EditChain(x, p) ==
    LET x_smooth == EmaSmooth(x, p.ema_beta)
        gained == ApplyGains(x.shape, x_smooth, p.gains)
        x_edit == IF p.preserve_rms THEN PreserveRms(x.shape, x.data, gained) ELSE gained
        blended == Blend(p.alpha_mix, x.data, x_edit)
        x_mixed == Clamp(p.clamp_std, GlobalGain(p.global_gain, blended))
    IN  [x_smooth |-> x_smooth, x_edit |-> x_edit, x_mixed |-> x_mixed]

(***************************************************************************)
(* HuMoAudioThresholdSwitcher.  A Python value is a record                 *)
(*   ty     "float", "int", "list", "tuple", "Tensor", "ndarray", "str",   *)
(*          "dict"                                                         *)
(*   v      the number of a float (in units) or of an int                  *)
(*   items  the elements of a list or tuple (Python values)                *)
(*   shape, data  the shape and row-major elements of a Tensor or ndarray  *)
(***************************************************************************)
PyFloat(u) == [ty |-> "float", v |-> u, items |-> <<>>, shape |-> <<>>, data |-> <<>>]
PyInt(n) == [ty |-> "int", v |-> n, items |-> <<>>, shape |-> <<>>, data |-> <<>>]
PyList(xs) == [ty |-> "list", v |-> 0, items |-> xs, shape |-> <<>>, data |-> <<>>]
PyTuple(xs) == [ty |-> "tuple", v |-> 0, items |-> xs, shape |-> <<>>, data |-> <<>>]
PyTensor(sh, d) == [ty |-> "Tensor", v |-> 0, items |-> <<>>, shape |-> sh, data |-> d]
PyNdArray(sh, d) == [ty |-> "ndarray", v |-> 0, items |-> <<>>, shape |-> sh, data |-> d]
PyStr == [ty |-> "str", v |-> 0, items |-> <<>>, shape |-> <<>>, data |-> <<>>]
PyDict == [ty |-> "dict", v |-> 0, items |-> <<>>, shape |-> <<>>, data |-> <<>>]

\* the result of a conversion: a tensor, or the exception it raised
Converted(sh, d) == [ok |-> TRUE, shape |-> sh, data |-> d, exc |-> "none"]
Raised(e) == [ok |-> FALSE, shape |-> <<>>, data |-> <<>>, exc |-> e]

\* torch.tensor(list_of_converted_elements): the elements must agree in shape
TorchStack(subs) ==
    IF \E i \in 1..Len(subs) : ~subs[i].ok
    THEN Raised("TypeError: torch.tensor")
    ELSE IF \E i \in 1..Len(subs) : subs[i].shape # subs[1].shape
    THEN Raised("ValueError: torch.tensor")
    ELSE Converted(<<Len(subs)>> \o (IF Len(subs) = 0 THEN <<>> ELSE subs[1].shape),
                   Stack([i \in 1..Len(subs) |-> subs[i].data]))

\* torch.tensor(obj, dtype=torch.float32)
RECURSIVE TorchTensor(_)
TorchTensor(obj) ==
    IF obj.ty = "float" THEN Converted(<<>>, <<obj.v>>)
    ELSE IF obj.ty = "int" THEN Converted(<<>>, <<FInt(obj.v)>>)
    ELSE IF obj.ty \in {"list", "tuple"}
         THEN TorchStack(Vec([i \in 1..Len(obj.items) |-> TorchTensor(obj.items[i])]))
    ELSE IF obj.ty = "ndarray" THEN Converted(obj.shape, obj.data)
    ELSE IF obj.ty = "Tensor" /\ Numel(obj.shape) = 1 THEN Converted(<<>>, obj.data)
    ELSE Raised("TypeError: torch.tensor")

\* the (sample_rate, audio_data) test of _convert_to_tensor
IsPair(a) == Len(a.items) = 2 /\ a.items[2].ty \in {"ndarray", "Tensor", "list"}

\* _convert_to_tensor(audio)
ConvertToTensor(a) ==
    IF a.ty = "Tensor" THEN Converted(a.shape, a.data)
    ELSE IF a.ty = "ndarray" THEN Converted(a.shape, a.data)
    ELSE IF a.ty \in {"list", "tuple"}
         THEN IF IsPair(a)
              THEN (IF a.items[2].ty \in {"Tensor", "ndarray"}
                    THEN Converted(a.items[2].shape, a.items[2].data)
                    ELSE TorchTensor(a.items[2]))
              ELSE TorchTensor(a)
    ELSE IF TorchTensor(a).ok THEN TorchTensor(a)
    ELSE Raised("ValueError: Unsupported audio format")

\* rms = torch.sqrt(torch.mean(audio_flat ** 2))
RawRms(flat) == FSqrt(FMean(FSquares(flat)))

\* the non-finite value is returned as it is
CalculateRms_unguarded(t) == RawRms(t.data)

\* _calculate_rms(audio_tensor)
CalculateRms(t) ==
    IF IsNaN(RawRms(t.data)) \/ IsInf(RawRms(t.data)) THEN 0 ELSE RawRms(t.data)

\* is_silent = rms <= threshold
IsSilent_or_equal(r, t) == FLt(r, t) \/ (IsFinite(r) /\ r = t)

\* is_silent = rms < threshold
IsSilent(r, t) == FLt(r, t)

\* invert is ignored
Decide_ignoring_invert(is_silent, inv) == is_silent

\* enabled, from is_silent and invert
Decide(is_silent, inv) == IF inv THEN ~is_silent ELSE is_silent

\* analyze(audio, threshold, invert): the outcome, the local rms, the result
Analyze(a, t, inv) ==
    LET c == ConvertToTensor(a)
    IN  IF ~c.ok THEN [ok |-> FALSE, exc |-> c.exc, rms |-> 0, enabled |-> FALSE]
        ELSE [ok |-> TRUE, exc |-> "none", rms |-> CalculateRms(c),
              enabled |-> Decide(IsSilent(CalculateRms(c), t), inv)]

(***************************************************************************)
(* State.                                                                  *)
(*   tensors, dicts  the heap: tensor objects and mapping objects, by id   *)
(*   image_embeds    the id of the caller's mapping                        *)
(*   enabled, preset the arguments and the class-level parameters          *)
(*   pc, ret, exc    "call", then "returned" with ret the id of the        *)
(*                   returned mapping, or "raised" with exc the error      *)
(*   locals          the ids of x_smooth, x_edit, x_mixed (0: not set)     *)
(*   stages          the stages of the chain the call ran, in order        *)
(*   audio, threshold, invert, gpc, gret, gexc, rms  the same for analyze  *)
(***************************************************************************)
VARIABLES tensors, dicts, image_embeds, enabled, preset, pc, ret, exc, locals, stages,
          audio, threshold, invert, gpc, gret, gexc, rms

editorVars == <<tensors, dicts, image_embeds, enabled, preset, pc, ret, exc, locals, stages>>
gateVars == <<audio, threshold, invert, gpc, gret, gexc, rms>>
vars == <<editorVars, gateVars>>

NoLocals == [x_smooth |-> 0, x_edit |-> 0, x_mixed |-> 0]

(***************************************************************************)
(* Inputs of apply.                                                        *)
(***************************************************************************)
\* the two values a frame alternates between, per frame kind
FramePairs == << <<50, 50>>, <<100, 0 - 50>>, <<15000, 0>>, <<0, 0>> >>

\* one time step [5, NumCh] of an embedding
Frame(p) ==
    Vec([j \in 1..(5 * NumCh) |->
        IF (((j - 1) \div NumCh) + ((j - 1) % NumCh)) % 2 = 0 THEN p[1] ELSE p[2]])

\* the frame kind at time t (from 0) of the signal that starts at kind a and
\* advances by d kinds per step: d = 0 is a constant input
Signal(a, d, t) == FramePairs[((a + d * t) % Len(FramePairs)) + 1]

Starts == 0..(Len(FramePairs) - 1)
Strides == {0, 1}

ValidTensors ==
    { Tensor(<<T, 5, NumCh>>, Stack([t \in 1..T |-> Frame(Signal(a, d, t - 1))]))
      : T \in 0..MaxT, a \in Starts, d \in Strides }

Ones(shape) == Tensor(shape, Vec([i \in 1..Numel(shape) |-> One]))

BadTensors == { Ones(<<2, 3, NumCh>>), Ones(<<5, NumCh>>), Ones(<<1, 5, NumCh, 1>>) }

AltGains == <<200, 0, 100, 0 - 100, 50>>

Presets == [gains : {PRESET_GAINS, AltGains},
            ema_beta : {0, PRESET_EMA_BETA},
            preserve_rms : BOOLEAN,
            alpha_mix : {0, 50, PRESET_ALPHA_MIX},
            global_gain : {PRESET_GLOBAL_GAIN, 200},
            clamp_std : {PRESET_CLAMP_STD, 100}]

\* the mappings a caller may pass: tensor 1 under KEY, tensor 2 under OTHER_KEY
InputDicts ==
    { [k \in K |-> IF k = KEY THEN 1 ELSE 2] : K \in {{KEY, OTHER_KEY}, {OTHER_KEY}, {}} }

GateIdle ==
    /\ audio = PyList(<<>>)
    /\ threshold = 0
    /\ invert = FALSE
    /\ gpc = "idle"
    /\ gret = FALSE
    /\ gexc = "none"
    /\ rms = 0

InitEditor ==
    /\ \E x \in ValidTensors \cup BadTensors : tensors = <<x, Ones(<<3>>)>>
    /\ \E d \in InputDicts : dicts = <<d>>
    /\ image_embeds = 1
    /\ enabled \in BOOLEAN
    /\ preset \in Presets
    /\ pc = "call"
    /\ ret = 0
    /\ exc = "none"
    /\ locals = NoLocals
    /\ stages = <<>>
    /\ GateIdle

(***************************************************************************)
(* apply(self, image_embeds, enabled)                                      *)
(***************************************************************************)
\* the test inverted: the chain runs on enabled = False
PassThrough_inverted(en) == en

\* if not enabled: (return the input)
PassThrough(en) == ~en

\* embeds = image_embeds: no copy, the caller's mapping is written
DictCopy_alias(ds, ref) == [dicts |-> ds, ref |-> ref]

\* embeds = dict(image_embeds): a new mapping object with the same items
DictCopy(ds, ref) == [dicts |-> Append(ds, ds[ref]), ref |-> Len(ds) + 1]

\* if not enabled: return (image_embeds,)
ApplyDisabled ==
    /\ pc = "call"
    /\ PassThrough(enabled)
    /\ ret' = image_embeds
    /\ pc' = "returned"
    /\ UNCHANGED <<tensors, dicts, image_embeds, enabled, preset, exc, locals, stages>>
    /\ UNCHANGED gateVars

\* a silent fallback: the mapping is returned without the key
ApplyMissingKey_fallback ==
    /\ pc = "call"
    /\ ~PassThrough(enabled)
    /\ KEY \notin DOMAIN dicts[image_embeds]
    /\ pc' = "returned"
    /\ ret' = image_embeds
    /\ UNCHANGED <<tensors, dicts, image_embeds, enabled, preset, exc, locals, stages>>
    /\ UNCHANGED <<audio, threshold, invert, gpc, gret, gexc, rms>>

\* if key not in embeds: raise ValueError(...); the copy made before is dropped
ApplyMissingKey ==
    /\ pc = "call"
    /\ ~PassThrough(enabled)
    /\ KEY \notin DOMAIN DictCopy(dicts, image_embeds).dicts[DictCopy(dicts, image_embeds).ref]
    /\ pc' = "raised"
    /\ exc' = "ValueError: missing key"
    /\ UNCHANGED <<tensors, dicts, image_embeds, enabled, preset, ret, locals, stages>>
    /\ UNCHANGED gateVars

\* if x.ndim != 3 or x.shape[1] != 5: raise ValueError(...)
ApplyShapeError ==
    /\ pc = "call"
    /\ ~PassThrough(enabled)
    /\ KEY \in DOMAIN dicts[image_embeds]
    /\ ~ShapeOK(tensors[dicts[image_embeds][KEY]])
    /\ pc' = "raised"
    /\ exc' = "ValueError: shape"
    /\ UNCHANGED <<tensors, dicts, image_embeds, enabled, preset, ret, locals, stages>>
    /\ UNCHANGED gateVars

\* the chain, embeds[key] = x_mixed, return (embeds,)
ApplyEdit ==
    /\ pc = "call"
    /\ ~PassThrough(enabled)
    /\ KEY \in DOMAIN dicts[image_embeds]
    /\ ShapeOK(tensors[dicts[image_embeds][KEY]])
    /\ \E copy \in {DictCopy(dicts, image_embeds)} :
       \E xid \in {copy.dicts[copy.ref][KEY]} :
       \E r \in {EditChain(tensors[xid], preset)} :
          LET x == tensors[xid]
              \* x_smooth is a new tensor only when the smoothing loop runs
              fresh == SmoothingRuns(x, preset.ema_beta)
              heap1 == IF fresh THEN Append(tensors, Tensor(x.shape, r.x_smooth))
                                ELSE tensors
              heap2 == Append(heap1, Tensor(x.shape, r.x_edit))
              heap3 == Append(heap2, Tensor(x.shape, r.x_mixed))
          IN  /\ tensors' = heap3
              /\ locals' = [x_smooth |-> IF fresh THEN Len(heap1) ELSE xid,
                            x_edit |-> Len(heap2), x_mixed |-> Len(heap3)]
              /\ dicts' = [copy.dicts EXCEPT ![copy.ref][KEY] = Len(heap3)]
              /\ ret' = copy.ref
              /\ stages' = StagesRun(x, preset)
    /\ pc' = "returned"
    /\ UNCHANGED <<image_embeds, enabled, preset, exc>>
    /\ UNCHANGED gateVars

NextEditor == ApplyDisabled \/ ApplyMissingKey \/ ApplyShapeError \/ ApplyEdit

SpecEditor == InitEditor /\ [][NextEditor]_vars

(***************************************************************************)
(* Properties of apply.                                                    *)
(***************************************************************************)
\* the caller's mapping and the tensor it holds under KEY
InDict == dicts[image_embeds]
HasKey == KEY \in DOMAIN InDict
InX == tensors[InDict[KEY]]

\* element-wise equality of two tensors (a NaN equals nothing)
TensorEq(a, b) ==
    /\ a.shape = b.shape
    /\ \A i \in 1..Len(a.data) : ~IsNaN(a.data[i]) /\ a.data[i] = b.data[i]

AllFinite(data) == \A i \in 1..Len(data) : IsFinite(data[i])

\* C1: a call with enabled = False returns the caller's mapping: every key maps
\* to the same value, the tensor under "humo_audio_emb" is element-wise the
\* input tensor, and nothing on the heap is written.
C1_DisabledIsIdentity ==
    [][ (pc = "call" /\ ~enabled) =>
          /\ pc' = "returned"
          /\ dicts'[ret'] = InDict
          /\ dicts'[image_embeds'] = InDict
          /\ \A k \in DOMAIN InDict : tensors'[dicts'[ret'][k]] = tensors[InDict[k]]
          /\ HasKey => TensorEq(tensors'[dicts'[ret'][KEY]], InX)
          /\ stages' = <<>> ]_vars

C1_Witness ==
    /\ pc = "returned" /\ ~enabled /\ HasKey
    /\ InX.shape = <<MaxT, 5, NumCh>>
    /\ dicts[ret] = InDict

\* C2: a call with enabled = True on a tensor that is not 3-dimensional or whose
\* second axis is not 5 ends in the shape error: no mapping is returned, no
\* stage of the chain runs, and the caller's mapping and tensors are unchanged.
C2_ShapeErrorAborts ==
    [][ (pc = "call" /\ enabled /\ HasKey
           /\ (Len(InX.shape) # 3 \/ InX.shape[2] # 5)) =>
          /\ pc' = "raised"
          /\ exc' = "ValueError: shape"
          /\ ret' = 0
          /\ stages' = <<>>
          /\ locals' = NoLocals
          /\ dicts' = dicts
          /\ tensors' = tensors ]_vars

C2_Witness ==
    /\ pc = "raised" /\ exc = "ValueError: shape"
    /\ InX.shape = <<2, 3, NumCh>>

\* C3 as stated: whenever the mapping lacks "humo_audio_emb" the call fails
\* with the missing-key error, whatever enabled is.
C3_MissingKeyAlwaysFails ==
    (pc # "call" /\ ~HasKey) => (pc = "raised" /\ exc = "ValueError: missing key")

\* C3 amended: when the mapping lacks "humo_audio_emb", a call with
\* enabled = True fails with the missing-key error and returns nothing; a call
\* with enabled = False returns the caller's mapping.
C3_MissingKeyFailsWhenEnabled ==
    (pc # "call" /\ ~HasKey) =>
        IF enabled
        THEN pc = "raised" /\ exc = "ValueError: missing key" /\ ret = 0
        ELSE pc = "returned" /\ ret = image_embeds /\ exc = "none"

C3_Witness ==
    /\ pc = "raised" /\ exc = "ValueError: missing key"
    /\ enabled /\ ~HasKey /\ OTHER_KEY \in DOMAIN InDict

\* C4: a successful call with enabled = True returns a mapping with exactly the
\* keys of the input, every other key mapped to the same value, and leaves the
\* caller's mapping and every tensor that existed before the call unchanged:
\* the edit is a new tensor in a new mapping.
C4_EditWritesOnlyNewObjects ==
    [][ (pc = "call" /\ enabled /\ pc' = "returned") =>
          /\ DOMAIN dicts'[ret'] = DOMAIN InDict
          /\ \A k \in DOMAIN InDict \ {KEY} : dicts'[ret'][k] = InDict[k]
          /\ image_embeds' = image_embeds
          /\ dicts'[image_embeds] = InDict
          /\ \A id \in 1..Len(tensors) : tensors'[id] = tensors[id]
          /\ ret' # image_embeds
          /\ dicts'[ret'][KEY] > Len(tensors) ]_vars

C4_Witness ==
    /\ pc = "returned" /\ enabled
    /\ OTHER_KEY \in DOMAIN dicts[ret]
    /\ InX.shape[1] = MaxT
    /\ tensors[dicts[ret][KEY]].data # InX.data

\* the returned tensor
OutX == tensors[dicts[ret][KEY]]

\* C8 as stated: with alpha = 0 the returned tensor equals the input
\* element-wise, whatever the other parameters are.
C8_AlphaZeroIsIdentity ==
    (pc = "returned" /\ enabled /\ preset.alpha_mix = 0) => TensorEq(OutX, InX)

\* C8 amended: with alpha = 0, global gain 1 and clamp width 0, and no
\* non-finite element in the edited tensor, the returned tensor equals the
\* input element-wise, whatever beta, the band gains and the preserve-RMS flag.
C8_AlphaZeroIdentityNoGainNoClamp ==
    (pc = "returned" /\ enabled /\ preset.alpha_mix = 0
       /\ preset.global_gain = One /\ preset.clamp_std = 0
       /\ AllFinite(tensors[locals.x_edit].data))
    => TensorEq(OutX, InX)

C8_Witness ==
    /\ pc = "returned" /\ enabled /\ preset.alpha_mix = 0
    /\ preset.global_gain = One /\ preset.clamp_std = 0
    /\ preset.preserve_rms /\ preset.ema_beta > 0 /\ InX.shape[1] = MaxT
    /\ AllFinite(tensors[locals.x_edit].data)
    /\ tensors[locals.x_edit].data # InX.data
    /\ TensorEq(OutX, InX)

\* the smoothed sequence, and the layout of the input
Smoothed == tensors[locals.x_smooth].data
TimeSteps == InX.shape[1]
StepLen == InX.shape[2] * InX.shape[3]

\* the first n time steps of the input, as a tensor
Prefix(n) == Tensor(<<n, InX.shape[2], InX.shape[3]>>, SubSeq(InX.data, 1, n * StepLen))

ConstantInput ==
    \A t \in 1..(TimeSteps - 1) : \A j \in 1..StepLen :
        InX.data[t * StepLen + j] = InX.data[j]

\* C10: the smoothed value at t = 0 is x[0] and at each t >= 1 is
\* beta * s[t-1] + (1 - beta) * x[t]; the value at t is the one the smoothing
\* gives on x[0..t] alone; with beta = 0 or one time step the smoothed sequence
\* is the input; under the preset the output is gain[b] times the smoothed
\* value, which on a constant input is gain[b] times the input.
C10_SmoothingIsCausalScan ==
    (pc = "returned" /\ enabled) =>
        /\ Len(Smoothed) = Len(InX.data)
        /\ \A j \in 1..StepLen : TimeSteps >= 1 => Smoothed[j] = InX.data[j]
        /\ \A t \in 1..(TimeSteps - 1) : \A j \in 1..StepLen :
              Smoothed[t * StepLen + j] =
                  FAdd(FMul(preset.ema_beta, Smoothed[(t - 1) * StepLen + j]),
                       FMul(FSub(One, preset.ema_beta), InX.data[t * StepLen + j]))
        /\ \A n \in 1..TimeSteps :
              SubSeq(Smoothed, (n - 1) * StepLen + 1, n * StepLen)
                  = SubSeq(EmaSmooth(Prefix(n), preset.ema_beta),
                           (n - 1) * StepLen + 1, n * StepLen)
        /\ (preset.ema_beta = 0 \/ TimeSteps <= 1) => Smoothed = InX.data
        /\ preset = Preset =>
              /\ \A i \in 1..Len(InX.data) :
                    OutX.data[i] =
                        FMul(Smoothed[i], PRESET_GAINS[(((i - 1) \div InX.shape[3]) % 5) + 1])
              /\ ConstantInput =>
                    \A i \in 1..Len(InX.data) :
                        OutX.data[i] =
                            FMul(InX.data[i], PRESET_GAINS[(((i - 1) \div InX.shape[3]) % 5) + 1])

C10_Witness ==
    /\ pc = "returned" /\ enabled /\ preset = Preset
    /\ TimeSteps = MaxT
    /\ ~ConstantInput
    /\ Smoothed # InX.data
    /\ AllFinite(OutX.data)

(***************************************************************************)
(* Inputs of analyze.                                                      *)
(***************************************************************************)
SampleVals == {0, One, 0 - One}

\* the flat sample buffers
Flats == UNION { [1..n -> SampleVals] : n \in 0..MaxLen }

\* buffers whose mean square is not finite: a NaN or infinite sample, or a
\* sample whose square overflows
NonFiniteFlats ==
    { <<NaN>>, <<One, NaN>>, <<PInf>>, <<NInf, 0, One>>, <<15000>>, <<0, 15000, One, 0>> }

Floats(f) == Vec([i \in 1..Len(f) |-> PyFloat(f[i])])

\* f as n channels of Len(f) \div n samples: a nested list of per-channel lists
Nested(f, n) ==
    PyList(Vec([c \in 1..n |->
        PyList(Floats(SubSeq(f, (c - 1) * (Len(f) \div n) + 1, c * (Len(f) \div n))))]))

ChannelCounts(f) == { n \in 1..Len(f) : Len(f) % n = 0 }

SAMPLE_RATE == PyInt(44100)

AudioOf(f) ==
    { PyList(Floats(f)), PyTuple(Floats(f)), PyTensor(<<Len(f)>>, f), PyNdArray(<<Len(f)>>, f),
      PyTuple(<<SAMPLE_RATE, PyList(Floats(f))>>),
      PyTuple(<<SAMPLE_RATE, PyNdArray(<<Len(f)>>, f)>>),
      PyList(<<SAMPLE_RATE, PyTensor(<<Len(f)>>, f)>>) }
    \cup { Nested(f, n) : n \in ChannelCounts(f) }
    \cup { PyTensor(<<n, Len(f) \div n>>, f) : n \in ChannelCounts(f) }
    \cup { PyNdArray(<<n, Len(f) \div n>>, f) : n \in ChannelCounts(f) }

\* payloads that are no numeric array: text, a mapping, a ragged nested list,
\* a list of tensors
OtherAudio ==
    { PyStr, PyDict, PyFloat(One), PyInt(0),
      PyList(<<PyList(<<PyFloat(One), PyFloat(0)>>), PyList(<<PyFloat(One)>>),
               PyList(<<PyFloat(0)>>)>>),
      PyList(<<PyTensor(<<2>>, <<One, 0>>), PyTensor(<<2>>, <<0, 0>>),
               PyTensor(<<2>>, <<0, One>>)>>),
      PyList(<<PyList(<<>>), PyList(<<>>)>>) }

AudioInputs == UNION { AudioOf(f) : f \in Flats \cup NonFiniteFlats } \cup OtherAudio

Thresholds == {0, 1, 50, One}

EditorIdle ==
    /\ tensors = <<>>
    /\ dicts = <<>>
    /\ image_embeds = 0
    /\ enabled = FALSE
    /\ preset = Preset
    /\ pc = "idle"
    /\ ret = 0
    /\ exc = "none"
    /\ locals = NoLocals
    /\ stages = <<>>

InitGate ==
    /\ audio \in AudioInputs
    /\ threshold \in Thresholds
    /\ invert \in BOOLEAN
    /\ gpc = "call"
    /\ gret = FALSE
    /\ gexc = "none"
    /\ rms = 0
    /\ EditorIdle

(***************************************************************************)
(* analyze(self, audio, threshold, invert)                                 *)
(***************************************************************************)
\* the conversion succeeds: return (enabled,)
AnalyzeReturn ==
    /\ gpc = "call"
    /\ \E r \in {Analyze(audio, threshold, invert)} :
          /\ r.ok
          /\ rms' = r.rms
          /\ gret' = r.enabled
    /\ gpc' = "returned"
    /\ UNCHANGED <<audio, threshold, invert, gexc>>
    /\ UNCHANGED editorVars

\* the conversion raises: the exception leaves analyze
AnalyzeRaise ==
    /\ gpc = "call"
    /\ \E r \in {Analyze(audio, threshold, invert)} :
          /\ ~r.ok
          /\ gexc' = r.exc
    /\ gpc' = "raised"
    /\ UNCHANGED <<audio, threshold, invert, gret, rms>>
    /\ UNCHANGED editorVars

NextGate == AnalyzeReturn \/ AnalyzeRaise

SpecGate == InitGate /\ [][NextGate]_vars

(***************************************************************************)
(* Properties of analyze.                                                  *)
(***************************************************************************)
\* the samples the gate computes the RMS of
Samples == ConvertToTensor(audio).data

RECURSIVE SumSq(_, _)
SumSq(f, n) == IF n = 0 THEN 0 ELSE SumSq(f, n - 1) + f[n] * f[n]

\* a non-empty buffer of finite samples whose squares do not overflow
Regular(f) ==
    /\ Len(f) > 0
    /\ \A i \in 1..Len(f) : IsFinite(f[i]) /\ f[i] * f[i] <= FMaxU * Scale

\* C5: for every audio input that can be normalized, the result with
\* invert = True is the negation of the result with invert = False.
C5_InvertNegates ==
    (gpc = "returned") =>
        /\ Analyze(audio, threshold, ~invert).ok
        /\ gret = ~Analyze(audio, threshold, ~invert).enabled

C5_Witness ==
    /\ gpc = "returned" /\ invert /\ gret
    /\ Len(Samples) > 0 /\ rms = threshold

\* C6: with invert = False the result is true exactly when the RMS of the
\* samples is strictly below the threshold: an all-zero buffer gives true for
\* every threshold > 0, an RMS equal to the threshold gives false, and
\* [1, -1, 1, -1] with threshold 0.01 gives false.
C6_SilentIffRmsBelowThreshold ==
    (gpc = "returned" /\ ~invert) =>
        /\ gret = (rms < threshold)
        /\ Regular(Samples) =>
              gret = (SumSq(Samples, Len(Samples)) < Len(Samples) * threshold * threshold)
        /\ (Len(Samples) > 0 /\ threshold > 0 /\ \A i \in 1..Len(Samples) : Samples[i] = 0)
              => gret
        /\ threshold = 0 => ~gret
        /\ (audio = PyList(Floats(<<One, 0 - One, One, 0 - One>>)) /\ threshold = 1)
              => (~gret /\ rms = One)

C6_Witness ==
    /\ gpc = "returned" /\ ~invert /\ ~gret
    /\ Regular(Samples)
    /\ threshold > 0
    /\ SumSq(Samples, Len(Samples)) = Len(Samples) * threshold * threshold

\* C7: the RMS the gate uses is a finite number >= 0; on an empty buffer, or
\* when the computed value is NaN or infinite, it is 0 and the call returns:
\* true for every threshold > 0 with invert = False, false with invert = True.
C7_NonFiniteRmsIsZero ==
    /\ (gpc = "returned") =>
          /\ IsFinite(rms) /\ rms >= 0
          /\ (Len(Samples) = 0 \/ ~IsFinite(RawRms(Samples)) \/ ~Regular(Samples)) =>
                (rms = 0 /\ (threshold > 0 => gret = ~invert))
    /\ (gpc = "raised") => ~ConvertToTensor(audio).ok

C7_Witness ==
    /\ gpc = "returned" /\ ~invert /\ gret /\ rms = 0
    /\ Len(Samples) > 0
    /\ IsNaN(RawRms(Samples))

\* a multi-channel numeric array: a nested list of per-channel sample lists of
\* one length, or a 2-dimensional tensor or array
IsChannelList(a) ==
    /\ a.ty = "list"
    /\ Len(a.items) >= 1
    /\ \A c \in 1..Len(a.items) :
          /\ a.items[c].ty = "list"
          /\ Len(a.items[c].items) = Len(a.items[1].items)
          /\ Len(a.items[c].items) >= 1
          /\ \A i \in 1..Len(a.items[c].items) : a.items[c].items[i].ty = "float"

IsMultiChannel(a) == IsChannelList(a) \/ (a.ty \in {"Tensor", "ndarray"} /\ Len(a.shape) = 2)

\* all samples of all channels, channel after channel, as a flat list
AllChannelsFlat(a) ==
    IF a.ty = "list" THEN PyList(Stack([c \in 1..Len(a.items) |-> a.items[c].items]))
    ELSE PyList(Floats(a.data))

\* C9: a multi-channel numeric array, in whichever container, is classified as
\* the flat concatenation of all its channels is.
C9_AllChannelsEnterRms ==
    (gpc # "call" /\ IsMultiChannel(audio)) =>
        /\ gpc = "returned"
        /\ gret = Analyze(AllChannelsFlat(audio), threshold, invert).enabled

\* the same, for every channel count but two in a nested list
C9_HoldsUnlessTwoChannelList ==
    (gpc # "call" /\ IsMultiChannel(audio) /\ ~(audio.ty = "list" /\ Len(audio.items) = 2)) =>
        /\ gpc = "returned"
        /\ gret = Analyze(AllChannelsFlat(audio), threshold, invert).enabled

====
